---- MODULE Spec2Model ----
(***************************************************************************)
(* A model of src/base.py, the object-relational mapping layer, and of the *)
(* declarations of src/test.py.                                            *)
(*                                                                         *)
(* Field objects live in the sequence `fields` and are identified by their *)
(* index (Python object identity).  A class is identified by its name; its *)
(* __dict__, restricted to the Field-valued entries, is the sequence       *)
(* classDict[c] of <<attribute name, field id>> in declaration order.      *)
(* SQL text is modelled as the strings the code builds.                    *)
(***************************************************************************)
EXTENDS Integers, Sequences, FiniteSets, TLC

VARIABLES
    fields,       \* the Field objects created so far
    declared,     \* the classes whose declaration has run (MetaBase.__init__)
    classDict,    \* class -> its Field attributes, in __dict__ order
    session,      \* Base._session
    filter_str,   \* class -> cls._filter_str
    instances,    \* the entity instances: their class and their __dict__
    tables,       \* the store behind the session: table name -> table
    call,         \* the operation that ran last and how it ended
    last_update   \* the last UPDATE statement the adapter was handed

vars == <<fields, declared, classDict, session, filter_str, instances, tables, call,
          last_update>>

declVars == <<fields, declared, classDict>>
opVars == <<session, filter_str, instances, tables, call, last_update>>

-----------------------------------------------------------------------------
(* Bounds of the model. *)

\* Field objects created in the declaration specification.
MaxFields == 3
\* Entity instances constructed in the operation specification.
MaxInstances == 2
\* Rows a table's AUTOINCREMENT sequence hands out before inserts stop.
MaxRowId == 2

-----------------------------------------------------------------------------
(* Python values. *)

NONE == "None"

PyNone == [t |-> "none"]
PyInt(n) == [t |-> "int", i |-> n]
PyStr(s) == [t |-> "str", s |-> s]

\* Python truthiness of a value: None, 0 and '' are falsy.
Truthy(v) ==
    CASE v.t = "none" -> FALSE
      [] v.t = "int" -> v.i # 0
      [] v.t = "str" -> v.s # ""

Digits == <<"0", "1", "2", "3", "4", "5", "6", "7", "8", "9">>

RECURSIVE NatStr(_)
NatStr(n) == IF n < 10 THEN Digits[n + 1] ELSE NatStr(n \div 10) \o Digits[(n % 10) + 1]

\* str(v), as an f-string formats a value.
PyFormat(v) ==
    CASE v.t = "none" -> "None"
      [] v.t = "int" -> IF v.i < 0 THEN "-" \o NatStr(-v.i) ELSE NatStr(v.i)
      [] v.t = "str" -> v.s

\* sep.join(parts) for a sequence of strings.
RECURSIVE StrJoin(_, _)
StrJoin(sep, parts) ==
    IF parts = <<>> THEN ""
    ELSE IF Len(parts) = 1 THEN parts[1]
    ELSE parts[1] \o sep \o StrJoin(sep, Tail(parts))

\* Whether `sub` occurs in `s`.
Contains(s, sub) ==
    \E k \in 1..(Len(s) - Len(sub) + 1) : SubSeq(s, k, k + Len(sub) - 1) = sub

\* Whether `s` starts with `pre`.
StartsWith(s, pre) == Len(s) >= Len(pre) /\ SubSeq(s, 1, Len(pre)) = pre

-----------------------------------------------------------------------------
(* Column types. *)

Integer == [kind |-> "Integer"]
String(length) == [kind |-> "String", length |-> length]

\* MetaType.__str__ for the class Integer, String.__str__ for an instance.
TypeStr(type) ==
    IF type.kind = "Integer" THEN "Integer"
    ELSE "Varchar(" \o NatStr(type.length) \o ")"

-----------------------------------------------------------------------------
(* Field. *)

\* Field.__init__ with a type given: the attributes of the new object.
Field(type, primary, autoincrement, not_null, foreign) ==
    [type |-> type, primary |-> primary, autoincrement |-> autoincrement,
     not_null |-> not_null, foreign |-> foreign, default_value |-> PyNone,
     table_class |-> NONE, fk |-> NONE]

\* Field.value: val or 'NULL'.
value(val) == IF Truthy(val) THEN val ELSE PyStr("NULL")

\* Field.set_table_class: an unconditional assignment.
set_table_class(fs, f, cls) == [fs EXCEPT ![f].table_class = cls]

-----------------------------------------------------------------------------
(* Classes. *)

ClassNames == {"User", "Post", "Tag"}

\* cls.__tablename__
tablename_of(cls) ==
    CASE cls = "User" -> "users"
      [] cls = "Post" -> "posts"
      [] cls = "Tag" -> "tags"
      [] OTHER -> NONE

\* The loop with the back-reference put on the referencing Field itself.
RECURSIVE MetaBaseInit_self(_, _, _)
MetaBaseInit_self(fs, cls, attrs) ==
    IF attrs = <<>> THEN fs
    ELSE LET f == attrs[1][2]
             bound == set_table_class(fs, f, cls)
             linked == IF bound[f].foreign # 0
                       THEN [bound EXCEPT ![f].fk = cls]
                       ELSE bound
         IN MetaBaseInit_self(linked, cls, Tail(attrs))

\* MetaBase.__init__: the loop over attrs, in order.
RECURSIVE MetaBaseInit(_, _, _)
MetaBaseInit(fs, cls, attrs) ==
    IF attrs = <<>> THEN fs
    ELSE LET f == attrs[1][2]
             bound == set_table_class(fs, f, cls)
             linked == IF bound[f].foreign # 0
                       THEN [bound EXCEPT ![bound[f].foreign].fk = cls]
                       ELSE bound
         IN MetaBaseInit(linked, cls, Tail(attrs))

\* Base.get_fields: the (name, field) pairs of cls.__dict__.
get_fields(cd, cls) == cd[cls]

\* Base.get_field_name: the first name of cls.__dict__ bound to the object.
get_field_name(cd, cls, f) ==
    LET hits == {k \in 1..Len(cd[cls]) : cd[cls][k][2] = f}
    IN IF hits = {} THEN NONE
       ELSE cd[cls][CHOOSE k \in hits : \A j \in hits : k <= j][1]

\* Field.name; None when the lookup finds nothing.
name_of(fs, cd, f) ==
    IF fs[f].table_class = NONE THEN NONE
    ELSE get_field_name(cd, fs[f].table_class, f)

\* Field.tablename
tablename(fs, f) == tablename_of(fs[f].table_class)

\* Field.full_name
full_name(fs, cd, f) == tablename(fs, f) \o "." \o name_of(fs, cd, f)

\* Field.as_name
as_name(fs, cd, f) == tablename(fs, f) \o "_" \o name_of(fs, cd, f)

\* Base.get_foreign_field_by_table: the first field whose foreign belongs to
\* `table`; 0 stands for None.
get_foreign_field_by_table(fs, cd, cls, table) ==
    LET hits == {k \in 1..Len(cd[cls]) :
                    LET f == cd[cls][k][2]
                    IN fs[f].foreign # 0 /\ fs[fs[f].foreign].table_class = table}
    IN IF hits = {} THEN 0
       ELSE cd[cls][CHOOSE k \in hits : \A j \in hits : k <= j][2]

-----------------------------------------------------------------------------
(* Python dicts as sequences of <<key, value>> with distinct keys. *)

DictKeys(d) == {d[k][1] : k \in 1..Len(d)}

DictGet(d, key) == d[CHOOSE k \in 1..Len(d) : d[k][1] = key][2]

\* d[key] = val: an existing key keeps its place, a new key goes last.
DictSet(d, key, val) ==
    IF key \in DictKeys(d)
    THEN [k \in 1..Len(d) |-> IF d[k][1] = key THEN <<key, val>> ELSE d[k]]
    ELSE Append(d, <<key, val>>)

\* dict.update(other)
RECURSIVE DictUpdate(_, _)
DictUpdate(d, other) ==
    IF other = <<>> THEN d
    ELSE DictUpdate(DictSet(d, other[1][1], other[1][2]), Tail(other))

\* dict(pairs)
dict(pairs) == DictUpdate(<<>>, pairs)

\* The entries of d that satisfy Keep, in order.
RECURSIVE DictFilter(_, _)
DictFilter(d, keep) ==
    IF d = <<>> THEN <<>>
    ELSE IF d[1][1] \in keep THEN <<d[1]>> \o DictFilter(Tail(d), keep)
    ELSE DictFilter(Tail(d), keep)

-----------------------------------------------------------------------------
(* DDL fragments. *)

\* Field.definition: _template_definition filled from _definition_dict.
definition(fs, f) ==
    TypeStr(fs[f].type) \o " "
        \o (IF fs[f].not_null THEN "NOT NULL" ELSE "") \o " "
        \o (IF fs[f].primary THEN "PRIMARY KEY" ELSE "") \o " "
        \o (IF fs[f].autoincrement THEN "AUTOINCREMENT" ELSE "")

\* Field.foreign_key_definition; NONE when the field has no foreign.
foreign_key_definition(fs, cd, f) ==
    IF fs[f].foreign = 0 THEN NONE
    ELSE "FOREIGN KEY (" \o name_of(fs, cd, f) \o ") references "
            \o tablename(fs, fs[f].foreign) \o "("
            \o name_of(fs, cd, fs[f].foreign) \o ")"

\* Base.get_field_definitions
get_field_definitions(fs, cd, cls) ==
    LET parts == [k \in 1..Len(cd[cls]) |->
                    cd[cls][k][1] \o " " \o definition(fs, cd[cls][k][2]) \o ", "]
        definitions_str == StrJoin("", parts)
    IN SubSeq(definitions_str, 1, Len(definitions_str) - 2)

\* Base.get_keys
get_keys(fs, cd, cls) ==
    LET parts == [k \in 1..Len(cd[cls]) |->
                    IF fs[cd[cls][k][2]].foreign = 0 THEN ""
                    ELSE ", " \o foreign_key_definition(fs, cd, cd[cls][k][2])]
    IN StrJoin("", parts)

\* The query Base.create_table builds from _create_table_template.
create_table_query(fs, cd, cls) ==
    "create table if not exists " \o tablename_of(cls) \o " ("
        \o get_field_definitions(fs, cd, cls) \o " " \o get_keys(fs, cd, cls) \o ")"

\* The query Base.drop_table builds from _drop_table_template.
drop_table_query(cls) == "drop table if exists " \o tablename_of(cls)

-----------------------------------------------------------------------------
(* SELECT: join inference and the query of get. *)

\* The positions of cls.__dict__ whose field passes the test both join and
\* get apply: field._fk and field.table_class == cls.
referenced_slots(fs, cd, cls) ==
    {k \in 1..Len(cd[cls]) :
        fs[cd[cls][k][2]].fk # NONE /\ fs[cd[cls][k][2]].table_class = cls}

\* The descriptor join yields for the field at position k.
join_line(fs, cd, cls, k) ==
    LET f == cd[cls][k][2]
        fk_table == fs[f].fk
        g == get_foreign_field_by_table(fs, cd, fk_table, cls)
    IN [fk_table |-> tablename_of(fk_table),
        fk |-> IF g = 0 THEN NONE ELSE name_of(fs, cd, g),
        pk_table |-> tablename_of(cls),
        pk |-> name_of(fs, cd, f)]

RECURSIVE join_from(_, _, _, _)
join_from(fs, cd, cls, k) ==
    IF k > Len(cd[cls]) THEN <<>>
    ELSE (IF k \in referenced_slots(fs, cd, cls)
          THEN <<join_line(fs, cd, cls, k)>> ELSE <<>>)
         \o join_from(fs, cd, cls, k + 1)

\* Base.join: the descriptors, in field order.
join(fs, cd, cls) == join_from(fs, cd, cls, 1)

\* _join_template filled from one descriptor.
join_clause(line) ==
    "left join " \o line.fk_table \o " on " \o line.fk_table \o "." \o line.fk
        \o " = " \o line.pk_table \o "." \o line.pk

\* Base.get up to the query it builds: what it raises before that, or the
\* column list and the query.
get_query(fs, cd, cls, args) ==
    LET slots == referenced_slots(fs, cd, cls)
    IN IF slots = {}
       THEN \* print(fk_table) reads a local that was never assigned
            [raised |-> TRUE, exc |-> "UnboundLocalError", keys |-> <<>>,
             columns |-> <<>>, joined |-> <<>>, query |-> ""]
       ELSE
       LET last == CHOOSE k \in slots : \A j \in slots : j <= k
           fk_table == fs[cd[cls][last][2]].fk
           fk_fields == dict(get_fields(cd, fk_table))
           all_fields == DictUpdate(dict(get_fields(cd, cls)), fk_fields)
           chosen == DictFilter(all_fields, args)
           selected == IF chosen = <<>> THEN all_fields ELSE chosen
           columns == [k \in 1..Len(selected) |->
                         selected[k][1] \o " as " \o as_name(fs, cd, selected[k][2])]
           lines == join(fs, cd, cls)
           joins == [k \in 1..Len(lines) |-> join_clause(lines[k])]
       IN IF \E k \in 1..Len(lines) : lines[k].fk = NONE
          THEN [raised |-> TRUE, exc |-> "AttributeError", keys |-> <<>>,
                columns |-> <<>>, joined |-> <<>>, query |-> ""]
          ELSE [raised |-> FALSE, exc |-> "",
                keys |-> [k \in 1..Len(selected) |-> selected[k][1]],
                columns |-> columns,
                joined |-> [k \in 1..Len(lines) |-> lines[k].fk_table],
                query |-> "select " \o StrJoin(", ", columns) \o " from "
                            \o tablename_of(cls) \o " " \o StrJoin(" ", joins)]

-----------------------------------------------------------------------------
(* Declarations: the class statements of a program. *)

\* Attribute names a class body binds Fields to.
ColumnNames == {"id", "ref"}

\* The Field constructions a class body makes, without the foreign argument.
FieldKinds ==
    {[type |-> Integer, primary |-> FALSE, autoincrement |-> FALSE, not_null |-> TRUE]}

\* The Field-valued part of a class body's attrs: distinct names, each bound
\* to a Field object that exists.
AttrLists(n) ==
    LET slots == ColumnNames \X (1..n)
    IN {<<>>} \cup {<<a>> : a \in slots}
          \cup {p \in slots \X slots : p[1][1] # p[2][1]}

\* Field(type=..., foreign=...): a new Field object.
NewField(kind, foreign) ==
    /\ Len(fields) < MaxFields
    /\ fields' = Append(fields, Field(kind.type, kind.primary, kind.autoincrement,
                                       kind.not_null, foreign))
    /\ UNCHANGED <<declared, classDict>>
    /\ UNCHANGED opVars

\* The order in which a program's class statements run; the names are labels.
ClassOrder == <<"User", "Post", "Tag">>

\* class cls(Base): ... -- MetaBase.__init__ runs over the body's attrs.
DeclareClass(cls, attrs) ==
    /\ cls \notin declared
    /\ cls = ClassOrder[Cardinality(declared) + 1]
    /\ declared' = declared \cup {cls}
    /\ classDict' = [classDict EXCEPT ![cls] = attrs]
    /\ fields' = MetaBaseInit(fields, cls, attrs)
    /\ UNCHANGED opVars

-----------------------------------------------------------------------------
(* The store behind the session: sqlite3, as the statements of this        *)
(* program use it.  A table keeps the primary key of each row and the      *)
(* instance whose save inserted it; the other columns are checked on       *)
(* insert and not kept.                                                    *)

\* The record of a call: its arguments, cls._filter_str when it began, what
\* it raised or caught, what it returned, the statements it handed to the
\* adapter, and for a save the instance __dict__ before it.
NoCall ==
    [op |-> "none", cls |-> NONE, inst |-> 0, kwargs |-> <<>>, names |-> {},
     condition |-> "", filter |-> "", raised |-> FALSE, exc |-> "", caught |-> "",
     ret |-> NONE, executed |-> <<>>, columns |-> <<>>, before |-> <<>>,
     lastrowid |-> 0]

NoUpdate == [cls |-> NONE, kwargs |-> <<>>, filter |-> "", query |-> ""]

TableNames == {tablename_of(c) : c \in ClassNames}

NoTable == [exists |-> FALSE, rows |-> {}, seq |-> 0]

DigitOf(ch) == CHOOSE d \in 0..9 : Digits[d + 1] = ch

IsNatStr(s) ==
    /\ Len(s) > 0
    /\ \A k \in 1..Len(s) : \E d \in 0..9 : Digits[d + 1] = SubSeq(s, k, k)

RECURSIVE StrNat(_)
StrNat(s) ==
    IF Len(s) = 0 THEN 0
    ELSE 10 * StrNat(SubSeq(s, 1, Len(s) - 1)) + DigitOf(SubSeq(s, Len(s), Len(s)))

\* The text between the quotes of a quoted value of a statement.
Unquote(text) == SubSeq(text, 2, Len(text) - 1)

\* cursor.execute of the INSERT that save builds, on a table created from
\* the DDL of cls: the error it raises ("" for none), the table afterwards
\* and the cursor's lastrowid.
SqlInsert(fs, cd, tbl, cls, by, columns, values) ==
    LET pks == {k \in 1..Len(columns) : fs[DictGet(cd[cls], columns[k])].primary}
        nulls == {k \in 1..Len(columns) :
                    /\ k \notin pks
                    /\ values[k] = "NULL"
                    /\ fs[DictGet(cd[cls], columns[k])].not_null}
        given == {k \in pks : values[k] # "NULL"}
        rowid == IF given = {} THEN tbl.seq + 1
                 ELSE StrNat(Unquote(values[CHOOSE k \in given : TRUE]))
    IN IF ~tbl.exists
       THEN [err |-> "OperationalError", table |-> tbl, lastrowid |-> 0]
       ELSE IF nulls # {}
       THEN [err |-> "IntegrityError", table |-> tbl, lastrowid |-> 0]
       ELSE IF \E k \in given : ~IsNatStr(Unquote(values[k]))
       THEN [err |-> "IntegrityError", table |-> tbl, lastrowid |-> 0]
       ELSE IF \E r \in tbl.rows : r.pk = rowid
       THEN [err |-> "IntegrityError", table |-> tbl, lastrowid |-> 0]
       ELSE [err |-> "",
             table |-> [tbl EXCEPT !.rows = @ \cup {[pk |-> rowid, by |-> by]},
                                   !.seq = IF rowid > @ THEN rowid ELSE @],
             lastrowid |-> rowid]

\* Base.get_session / Base.get_cursor: what obtaining a cursor raises.
get_cursor(fail) ==
    IF session = NONE THEN "Exception"
    ELSE IF fail = "cursor" THEN "ProgrammingError"
    ELSE ""

-----------------------------------------------------------------------------
(* Class-level operations. *)

\* Base.set_session
set_session ==
    /\ session' = "db"
    /\ call' = [NoCall EXCEPT !.op = "set_session"]
    /\ UNCHANGED <<filter_str, instances, tables, last_update>>
    /\ UNCHANGED declVars

\* Base.filter
filter(cls, condition) ==
    /\ filter_str' = [filter_str EXCEPT ![cls] = condition]
    /\ call' = [NoCall EXCEPT !.op = "filter", !.cls = cls, !.condition = condition,
                              !.filter = filter_str[cls], !.ret = cls]
    /\ UNCHANGED <<session, instances, tables, last_update>>
    /\ UNCHANGED declVars

\* Base.create_table: nothing is caught.
create_table(cls, fail) ==
    LET query == create_table_query(fields, classDict, cls)
        t == tablename_of(cls)
        cur == get_cursor(fail)
        rec == [NoCall EXCEPT !.op = "create_table", !.cls = cls,
                              !.filter = filter_str[cls]]
    IN /\ IF cur # ""
          THEN /\ call' = [rec EXCEPT !.raised = TRUE, !.exc = cur]
               /\ UNCHANGED tables
          ELSE IF fail = "execute"
          THEN /\ call' = [rec EXCEPT !.raised = TRUE, !.exc = "OperationalError",
                                      !.executed = <<query>>]
               /\ UNCHANGED tables
          ELSE /\ call' = [rec EXCEPT !.executed = <<query>>]
               /\ tables' = [tables EXCEPT ![t].exists = TRUE]
       /\ UNCHANGED <<session, filter_str, instances, last_update>>
       /\ UNCHANGED declVars

\* Base.drop_table: nothing is caught.
drop_table(cls, fail) ==
    LET query == drop_table_query(cls)
        t == tablename_of(cls)
        cur == get_cursor(fail)
        rec == [NoCall EXCEPT !.op = "drop_table", !.cls = cls,
                              !.filter = filter_str[cls]]
    IN /\ IF cur # ""
          THEN /\ call' = [rec EXCEPT !.raised = TRUE, !.exc = cur]
               /\ UNCHANGED tables
          ELSE IF fail = "execute"
          THEN /\ call' = [rec EXCEPT !.raised = TRUE, !.exc = "OperationalError",
                                      !.executed = <<query>>]
               /\ UNCHANGED tables
          ELSE /\ call' = [rec EXCEPT !.executed = <<query>>]
               /\ tables' = [tables EXCEPT ![t] = NoTable]
       /\ UNCHANGED <<session, filter_str, instances, last_update>>
       /\ UNCHANGED declVars

\* Field.value applied to a keyword's value and put between the quotes of
\* the assignment f'{field} = "{value}"'.
update_assignment(key, val) == key \o " = \"" \o PyFormat(value(val)) \o "\""

\* The query with the class's filter string appended as a WHERE clause.
update_query_where(cls, kwargs) ==
    "update " \o tablename_of(cls) \o " set "
        \o StrJoin(", ", [k \in 1..Len(kwargs) |->
                            update_assignment(kwargs[k][1], kwargs[k][2])])
        \o (IF filter_str[cls] = "" THEN "" ELSE " where " \o filter_str[cls])

\* The query Base.update builds from _update_template.
update_query(cls, kwargs) ==
    "update " \o tablename_of(cls) \o " set "
        \o StrJoin(", ", [k \in 1..Len(kwargs) |->
                            update_assignment(kwargs[k][1], kwargs[k][2])])

\* cursor.execute of an UPDATE ... SET on the table of cls: the error it
\* raises ("" for none).  The columns it assigns are not primary keys.
SqlUpdate(tbl, kwargs) ==
    IF ~tbl.exists \/ kwargs = <<>> THEN "OperationalError" ELSE ""

\* Base.update
update(cls, kwargs, fail) ==
    LET rec == [NoCall EXCEPT !.op = "update", !.cls = cls, !.kwargs = kwargs,
                              !.filter = filter_str[cls]]
        \* cls.__dict__.get(key) is None for a keyword that names no attribute
        unknown == \E k \in 1..Len(kwargs) : kwargs[k][1] \notin DictKeys(classDict[cls])
        query == update_query(cls, kwargs)
        cur == get_cursor(fail)
        err == IF cur # "" THEN cur
               ELSE IF fail = "execute" THEN "OperationalError"
               ELSE IF SqlUpdate(tables[tablename_of(cls)], kwargs) # ""
               THEN SqlUpdate(tables[tablename_of(cls)], kwargs)
               ELSE IF fail = "commit" THEN "OperationalError"
               ELSE ""
    IN /\ IF unknown
          THEN /\ call' = [rec EXCEPT !.raised = TRUE, !.exc = "AttributeError"]
               /\ UNCHANGED last_update
          ELSE /\ call' = [rec EXCEPT !.caught = err, !.ret = cls,
                                      !.executed = IF cur = "" THEN <<query>> ELSE <<>>]
               /\ last_update' = IF cur = ""
                                 THEN [cls |-> cls, kwargs |-> kwargs,
                                       filter |-> filter_str[cls], query |-> query]
                                 ELSE last_update
       /\ UNCHANGED <<session, filter_str, instances, tables>>
       /\ UNCHANGED declVars

\* The attribute names of the class whose table is t.
ColumnsOf(cd, t) ==
    UNION {DictKeys(cd[c]) : c \in {x \in ClassNames : tablename_of(x) = t}}

\* cursor.execute of the SELECT that get builds: the error it raises ("" for
\* none): a table that does not exist, a column of no table, or a bare
\* column name that two of the tables have.
SqlSelect(cd, tbls, from, joined, keys) ==
    LET used == {from} \cup {joined[k] : k \in 1..Len(joined)}
    IN IF \E t \in used : ~tbls[t].exists THEN "OperationalError"
       ELSE IF \E k \in 1..Len(keys) :
                 Cardinality({t \in used : keys[k] \in ColumnsOf(cd, t)}) # 1
       THEN "OperationalError"
       ELSE ""

\* Base.get
get(cls, names, fail) ==
    LET r == get_query(fields, classDict, cls, names)
        rec == [NoCall EXCEPT !.op = "get", !.cls = cls, !.names = names,
                              !.filter = filter_str[cls]]
        cur == get_cursor(fail)
        sql == SqlSelect(classDict, tables, tablename_of(cls), r.joined, r.keys)
        err == IF cur # "" THEN cur
               ELSE IF fail = "execute" THEN "OperationalError"
               ELSE IF sql # "" THEN sql
               ELSE IF fail = "commit" THEN "OperationalError"
               ELSE ""
    IN /\ IF r.raised
          THEN call' = [rec EXCEPT !.raised = TRUE, !.exc = r.exc]
          ELSE call' = [rec EXCEPT !.columns = r.columns, !.caught = err, !.ret = cls,
                                   !.executed = IF cur = "" THEN <<r.query>> ELSE <<>>]
       /\ UNCHANGED <<session, filter_str, instances, tables, last_update>>
       /\ UNCHANGED declVars

-----------------------------------------------------------------------------
(* Instances. *)

\* Base.__init__: one attribute per declared Field, from the keyword of the
\* same name or else the Field's default_value.
NewInstance(cls, kwargs) ==
    /\ Len(instances) < MaxInstances
    /\ LET fs == get_fields(classDict, cls)
           d == [k \in 1..Len(fs) |->
                   <<fs[k][1],
                     IF fs[k][1] \in DictKeys(kwargs) THEN DictGet(kwargs, fs[k][1])
                     ELSE fields[fs[k][2]].default_value>>]
       IN /\ instances' = Append(instances, [cls |-> cls, dict |-> d])
          /\ call' = [NoCall EXCEPT !.op = "init", !.cls = cls, !.kwargs = kwargs,
                                    !.inst = Len(instances) + 1]
    /\ UNCHANGED <<session, filter_str, tables, last_update>>
    /\ UNCHANGED declVars

\* A value of the INSERT that save builds.
save_value(val) == IF Truthy(val) THEN "\"" \o PyFormat(val) \o "\"" ELSE "NULL"

\* The query Base.save builds from _insert_template and the instance __dict__.
save_query(cls, d) ==
    "insert into " \o tablename_of(cls) \o "("
        \o StrJoin(", ", [k \in 1..Len(d) |-> d[k][1]]) \o ") values ("
        \o StrJoin(", ", [k \in 1..Len(d) |-> save_value(d[k][2])]) \o ")"

\* The write-back without its `if field.primary`: every attribute is set.
write_back_all(fs, cd, cls, d, last_id) ==
    [k \in 1..Len(d) |-> <<d[k][1], PyInt(last_id)>>]

\* No write-back: the instance keeps the key it had.
write_back_none(fs, cd, cls, d, last_id) == d

RECURSIVE write_back_from(_, _, _, _, _, _)
write_back_from(fs, cd, cls, d, last_id, k) ==
    IF k > Len(cd[cls]) THEN d
    ELSE write_back_from(fs, cd, cls,
                         IF fs[cd[cls][k][2]].primary
                         THEN DictSet(d, cd[cls][k][1], PyInt(last_id)) ELSE d,
                         last_id, k + 1)

\* The end of Base.save: last_id is set on every attribute whose Field is
\* primary.
write_back(fs, cd, cls, d, last_id) == write_back_from(fs, cd, cls, d, last_id, 1)

\* Base.save: whatever the try block raises is caught and reported.
save(i, fail) ==
    LET cls == instances[i].cls
        d == instances[i].dict
        t == tablename_of(cls)
        query == save_query(cls, d)
        cur == get_cursor(fail)
        ins == SqlInsert(fields, classDict, tables[t], cls, i,
                         [k \in 1..Len(d) |-> d[k][1]],
                         [k \in 1..Len(d) |-> save_value(d[k][2])])
        err == IF cur # "" THEN cur
               ELSE IF fail = "execute" THEN "OperationalError"
               ELSE IF ins.err # "" THEN ins.err
               ELSE IF fail = "commit" THEN "OperationalError"
               ELSE ""
        inserted == cur = "" /\ fail # "execute" /\ ins.err = ""
        rec == [NoCall EXCEPT !.op = "save", !.cls = cls, !.inst = i,
                              !.filter = filter_str[cls], !.before = d,
                              !.executed = IF cur = "" THEN <<query>> ELSE <<>>]
    IN /\ inserted => ins.lastrowid <= MaxRowId
       /\ tables' = IF inserted THEN [tables EXCEPT ![t] = ins.table] ELSE tables
       /\ IF err # ""
          THEN /\ call' = [rec EXCEPT !.caught = err]
               /\ UNCHANGED instances
          ELSE /\ call' = [rec EXCEPT !.lastrowid = ins.lastrowid]
               /\ instances' = [instances EXCEPT
                                  ![i].dict = write_back(fields, classDict, cls, d,
                                                         ins.lastrowid)]
       /\ UNCHANGED <<session, filter_str, last_update>>
       /\ UNCHANGED declVars

\* Base.delete: the bare name _delete_template is no global of the module.
delete(i) ==
    /\ call' = [NoCall EXCEPT !.op = "delete", !.cls = instances[i].cls, !.inst = i,
                              !.filter = filter_str[instances[i].cls],
                              !.before = instances[i].dict,
                              !.raised = TRUE, !.exc = "NameError"]
    /\ UNCHANGED <<session, filter_str, instances, tables, last_update>>
    /\ UNCHANGED declVars

-----------------------------------------------------------------------------
(* The program of src/test.py: its declarations, then operations on them.  *)

\* The Field objects of the two class bodies, in construction order.
DemoFields ==
    <<Field(Integer, TRUE, TRUE, TRUE, 0),
      Field(String(100), FALSE, FALSE, TRUE, 0),
      Field(String(100), FALSE, FALSE, TRUE, 0),
      Field(Integer, TRUE, TRUE, TRUE, 0),
      Field(Integer, FALSE, FALSE, TRUE, 1),
      Field(String(100), FALSE, FALSE, FALSE, 0)>>

UserAttrs == << <<"id", 1>>, <<"name", 2>>, <<"email", 3>> >>

PostAttrs == << <<"id", 4>>, <<"user_id", 5>>, <<"post", 6>> >>

InitOps ==
    /\ session = NONE
    /\ filter_str = [c \in ClassNames |-> ""]
    /\ instances = <<>>
    /\ tables = [t \in TableNames |-> NoTable]
    /\ call = NoCall
    /\ last_update = NoUpdate

\* The state once both class statements have run.
Init ==
    /\ fields = MetaBaseInit(MetaBaseInit(DemoFields, "User", UserAttrs), "Post", PostAttrs)
    /\ declared = {"User", "Post"}
    /\ classDict = [c \in ClassNames |->
                      CASE c = "User" -> UserAttrs
                        [] c = "Post" -> PostAttrs
                        [] OTHER -> <<>>]
    /\ InitOps

\* How a call on the adapter may fail.
Fails == {"none", "cursor", "execute", "commit"}
DdlFails == {"none", "execute"}

\* str(condition) for the conditions a caller passes to filter.
FilterConditions == {"False", "name = 'user1'"}

\* The keyword arguments a caller passes to update.
UpdateKwargs ==
    {<< <<"name", PyStr("user2")>> >>,
     << <<"name", PyNone>> >>,
     << <<"name", PyInt(0)>> >>,
     << <<"name", PyStr("")>> >>,
     << <<"name", PyStr("user2")>>, <<"email", PyNone>> >>,
     << <<"post", PyStr("text")>> >>}

\* The column names a caller passes to get.
GetNames == {{}, {"id", "name"}, {"nickname"}}

\* The keyword arguments a caller constructs an instance with.
InitKwargs(cls) ==
    IF cls = "User"
    THEN {<<>>, << <<"name", PyStr("user1")>>, <<"email", PyStr("mail")>> >>}
    ELSE {<< <<"user_id", v>>, <<"post", PyStr("Achtung!!!")>> >> :
            v \in {PyNone} \cup {DictGet(instances[j].dict, "id") :
                                  j \in {x \in 1..Len(instances) :
                                           instances[x].cls = "User"}}}

\* Class-level operations: DDL, filter, update and select.
Next ==
    \/ set_session
    \/ \E cls \in declared, fail \in DdlFails : create_table(cls, fail)
    \/ \E cls \in declared, fail \in DdlFails : drop_table(cls, fail)
    \/ \E cls \in declared, condition \in FilterConditions : filter(cls, condition)
    \/ \E cls \in declared, kwargs \in UpdateKwargs, fail \in Fails :
          update(cls, kwargs, fail)
    \/ \E cls \in declared, names \in GetNames, fail \in Fails : get(cls, names, fail)

Spec == Init /\ [][Next]_vars

\* Instance operations: construction, save and delete, on created tables.
NextSave ==
    \/ set_session
    \/ \E cls \in declared, fail \in DdlFails : create_table(cls, fail)
    \/ \E cls \in declared, fail \in DdlFails : drop_table(cls, fail)
    \/ \E cls \in declared : \E kwargs \in InitKwargs(cls) : NewInstance(cls, kwargs)
    \/ \E i \in 1..Len(instances), fail \in Fails : save(i, fail)
    \/ \E i \in 1..Len(instances) : delete(i)

SpecSave == Init /\ [][NextSave]_vars

InitDecl ==
    /\ fields = <<>>
    /\ declared = {}
    /\ classDict = [c \in ClassNames |-> <<>>]
    /\ InitOps

\* Any program of Field constructions and class statements, within the bounds.
NextDecl ==
    \/ \E kind \in FieldKinds, foreign \in 0..Len(fields) : NewField(kind, foreign)
    \/ \E cls \in ClassNames, attrs \in AttrLists(Len(fields)) : DeclareClass(cls, attrs)

SpecDecl == InitDecl /\ [][NextDecl]_vars

-----------------------------------------------------------------------------
(* Claims about join inference and registration (SpecDecl). *)

\* The Field objects in the __dict__ of a class, as a sequence.
FieldsIn(cls) == [k \in 1..Len(classDict[cls]) |-> classDict[cls][k][2]]

\* P and C are the declared schemas, no Field object sits in two of their
\* slots, and the only foreign reference among their Fields goes from
\* position r of C to the Field at position t of P.
ParentChild(P, C, r, t) ==
    LET all == FieldsIn(P) \o FieldsIn(C)
    IN /\ P # C
       /\ declared = {P, C}
       /\ r \in 1..Len(classDict[C])
       /\ t \in 1..Len(classDict[P])
       /\ fields[classDict[C][r][2]].foreign = classDict[P][t][2]
       /\ \A a, b \in 1..Len(all) : a # b => all[a] # all[b]
       /\ \A a \in 1..Len(all) : fields[all[a]].foreign # 0 <=> a = Len(classDict[P]) + r

\* C6: with a parent schema P and a child schema C in which exactly one Field
\* references a Field of P, join on P yields exactly one descriptor, naming
\* C's table, C's referencing column, P's table and the referenced column;
\* join on C yields none.
C6_JoinParentChild ==
    \A P, C \in declared :
        (P # C /\ declared = {P, C}) =>
            \A r \in 1..Len(classDict[C]), t \in 1..Len(classDict[P]) :
                ParentChild(P, C, r, t) =>
                    /\ join(fields, classDict, P) =
                          <<[fk_table |-> tablename_of(C), fk |-> classDict[C][r][1],
                             pk_table |-> tablename_of(P), pk |-> classDict[P][t][1]]>>
                    /\ join(fields, classDict, C) = <<>>

\* A parent declared first and a child whose first column references the
\* parent's second.
C6_Witness ==
    /\ ParentChild("User", "Post", 1, 2)
    /\ Len(join(fields, classDict, "User")) = 1

\* C9: a Field whose table_class has been set keeps it over every step.
C9_OwnerNeverChanges ==
    [][\A f \in 1..Len(fields) :
          fields[f].table_class # NONE =>
              fields'[f].table_class = fields[f].table_class]_vars

-----------------------------------------------------------------------------
(* Claims about update, filter and select (Spec). *)

\* C1: the statement update hands to the adapter has no WHERE clause, and it
\* is the text the previous update of the same class with the same keywords
\* handed over, whatever filter calls came before or in between.
C1_UpdateIgnoresFilter ==
    [][(call'.op = "update" /\ call'.executed # <<>>) =>
          /\ Len(call'.executed) = 1
          /\ ~Contains(call'.executed[1], " where ")
          /\ ~Contains(call'.executed[1], " WHERE ")
          /\ (last_update.cls = call'.cls /\ last_update.kwargs = call'.kwargs) =>
                call'.executed[1] = last_update.query]_vars

\* An update that the store carried out while the class held a filter string.
C1_Witness ==
    /\ call.op = "update"
    /\ call.executed # <<>>
    /\ call.caught = ""
    /\ call.kwargs # <<>>
    /\ call.filter # ""
    /\ filter_str[call.cls] = call.filter
    /\ last_update.query = call.executed[1]

\* C4: update and get return the class itself and never raise, for every
\* declared class and every argument.
C4_UpdateAndGetReturnSchema ==
    call.op \in {"update", "get"} => (~call.raised /\ call.ret = call.cls)

\* The column entries "<name> as <table>_<name>" of the Fields of a class.
AliasedColumns(cls) ==
    {classDict[cls][k][1] \o " as " \o tablename_of(cls) \o "_" \o classDict[cls][k][1] :
        k \in 1..Len(classDict[cls])}

\* C7: with both tables created, get on Post completes, and the statement it
\* hands over joins users and lists the columns of Post and of User, each
\* aliased <table>_<column>.
C7_SelectOnPosts ==
    (/\ call.op = "get"
     /\ call.cls = "Post"
     /\ tables["users"].exists
     /\ tables["posts"].exists) =>
        /\ ~call.raised
        /\ \A k \in 1..Len(call.executed) : Contains(call.executed[k], "join users")
        /\ AliasedColumns("Post") \cup AliasedColumns("User")
              \subseteq {call.columns[k] : k \in 1..Len(call.columns)}

\* The classes with a Field whose foreign is a Field of S.
Referencing(S) ==
    {c \in declared :
        \E k \in 1..Len(classDict[c]) :
            /\ fields[classDict[c][k][2]].foreign # 0
            /\ fields[fields[classDict[c][k][2]].foreign].table_class = S}

\* The column list the claim gives get(S, names).
UnionColumns(S, names) ==
    LET all == UNION {AliasedColumns(c) : c \in {S} \cup Referencing(S)}
        wanted == UNION {{n \o " as " \o tablename_of(c) \o "_" \o n : n \in names} :
                            c \in {S} \cup Referencing(S)}
    IN IF names = {} THEN all ELSE all \cap wanted

\* C8: for a class S that other classes reference, the column list of get has
\* one entry per Field of S and per Field of each referencing class, aliased
\* <ownerTable>_<columnName>, restricted to the requested names if any.
C8_SelectListsTheUnion ==
    (call.op = "get" /\ Referencing(call.cls) # {}) =>
        /\ ~call.raised
        /\ {call.columns[k] : k \in 1..Len(call.columns)}
              = UnionColumns(call.cls, call.names)
        /\ Len(call.columns) = Cardinality(UnionColumns(call.cls, call.names))

\* C10: each assignment of the statement update renders is the keyword, " = "
\* and the value as save renders it: NULL for a falsy value, the quoted
\* string otherwise.
C10_UpdateRendersLikeSave ==
    (call.op = "update" /\ call.executed # <<>>) =>
        \A k \in 1..Len(call.kwargs) :
            Contains(call.executed[1],
                     call.kwargs[k][1] \o " = " \o save_value(call.kwargs[k][2]))

-----------------------------------------------------------------------------
(* Claims about save and delete (SpecSave). *)

\* Whether the attribute of that name is declared as a primary-key Field.
IsPrimary(cls, name) ==
    /\ name \in DictKeys(classDict[cls])
    /\ fields[DictGet(classDict[cls], name)].primary

\* The rows of the table of cls that saves of instance i inserted.
RowsBy(tbls, cls, i) == {r \in tbls[tablename_of(cls)].rows : r.by = i}

\* C2: save never raises; when the cursor, the INSERT or the commit fails the
\* instance keeps every attribute value; when they succeed the primary-key
\* attributes hold the adapter's last inserted identity and the others keep
\* their values.
C2_SaveWritesBackOrLeaves ==
    call.op = "save" =>
        LET d == instances[call.inst].dict
        IN /\ ~call.raised
           /\ call.caught # "" => d = call.before
           /\ call.caught = "" =>
                /\ Len(d) = Len(call.before)
                /\ [pk |-> call.lastrowid, by |-> call.inst]
                      \in tables[tablename_of(call.cls)].rows
                /\ \A k \in 1..Len(d) :
                      /\ d[k][1] = call.before[k][1]
                      /\ IF IsPrimary(call.cls, d[k][1])
                         THEN d[k][2] = PyInt(call.lastrowid)
                         ELSE d[k][2] = call.before[k][2]

\* A save that succeeded on an instance whose key was not set before.
C2_Witness ==
    /\ call.op = "save"
    /\ call.caught = ""
    /\ call.lastrowid > 0
    /\ DictGet(call.before, "id") = PyNone
    /\ DictGet(instances[call.inst].dict, "id") = PyInt(call.lastrowid)

\* C3 as stated: a save right after a successful save of the same instance,
\* with the adapter itself working, issues an INSERT and leaves two rows of
\* that instance in the store.
C3_SecondSaveDuplicates ==
    [][(/\ call.op = "save" /\ call.caught = ""
        /\ call'.op = "save" /\ call'.inst = call.inst
        /\ call'.caught \in {"", "IntegrityError"}) =>
          /\ call'.executed # <<>>
          /\ StartsWith(call'.executed[1], "insert into ")
          /\ Cardinality(RowsBy(tables', call'.cls, call'.inst)) = 2]_vars

\* C3 amended: a save right after a successful save of the same instance
\* hands the adapter nothing but an INSERT, which carries the key written
\* back; it does not succeed, and it adds no row and changes no attribute.
C3_SecondSaveIsRejected ==
    [][(/\ call.op = "save" /\ call.caught = ""
        /\ call'.op = "save" /\ call'.inst = call.inst) =>
          /\ \A k \in 1..Len(call'.executed) :
                /\ StartsWith(call'.executed[k], "insert into ")
                /\ Contains(call'.executed[k], "\"" \o NatStr(call.lastrowid) \o "\"")
          /\ call'.caught # ""
          /\ ~call'.raised
          /\ tables' = tables
          /\ instances' = instances]_vars

\* A save the store rejected for its key, on an instance that already has
\* its row under that key.
C3_Witness ==
    /\ call.op = "save"
    /\ call.caught = "IntegrityError"
    /\ call.executed # <<>>
    /\ Truthy(DictGet(call.before, "id"))
    /\ Cardinality(RowsBy(tables, call.cls, call.inst)) = 1
    /\ \E r \in RowsBy(tables, call.cls, call.inst) :
          DictGet(call.before, "id") = PyInt(r.pk)

\* C5: with a session set, delete hands the adapter the one statement
\* 'delete from <table>', and raises only what the adapter's execute raises.
C5_DeleteIssuesDelete ==
    (call.op = "delete" /\ session # NONE) =>
        /\ call.executed = <<"delete from " \o tablename_of(call.cls)>>
        /\ call.raised => call.exc = "OperationalError"


====
